---- MODULE Spec2Model ----
(***************************************************************************)
(* The renter's download lifecycle (modules/renter/download.go): the       *)
(* download object and its completion (managedFail, Err), the construction *)
(* of the chunk jobs (newDownload), the public entry point (Download) and  *)
(* the history snapshot (DownloadHistory).                                 *)
(*                                                                         *)
(* Critical sections of d.mu are single steps: the mutex serialises them,  *)
(* and the only accesses outside the mutex (the select on completeChan in  *)
(* Download, the d.chunksRemaining++ of newDownload) are steps of their    *)
(* own.  uint64 is modelled with WordBits bits, int64 with the same width. *)
(***************************************************************************)
EXTENDS Integers, Sequences, FiniteSets, TLC

VARIABLES
    fsize,            \* file.size of the one file known to the renter
    csize,            \* file.staticChunkSize()
    pc,               \* position of each Download call
    req,              \* p, the parameters of each Download call
    ret,              \* the error each Download call returned (<<>> is nil)
    loc,              \* newDownload's locals: minChunk, maxChunk, i, writeOffset
    dl,               \* the download object each call created
    ghost,            \* history of each download: who completed it, first failure
    chunks,           \* the unfinishedDownloadChunks each call has pushed
    heap,             \* r.downloadHeap
    newDownloads,     \* r.newDownloads, the single-slot wake channel
    sched,            \* position of the download loop
    stopped,          \* r.tg.StopChan() is closed
    downloadHistory,  \* r.downloadHistory
    hist,             \* the running DownloadHistory call and its result
    clock             \* time.Now()

vars == <<fsize, csize, pc, req, ret, loc, dl, ghost, chunks, heap,
          newDownloads, sched, stopped, downloadHistory, hist, clock>>

-----------------------------------------------------------------------------
(* Bounds of the model. *)

WordBits == 4          \* width that stands for the 64 bits of uint64
MaxFileSize == 7       \* file sizes of the sequential specification
MaxChunkSize == 3      \* chunk sizes of the sequential specification
ConcFileSize == 4      \* file size of the concurrent specification
ConcChunkSize == 2     \* chunk size of the concurrent specification
MaxHistoryCalls == 1   \* DownloadHistory calls
MinPieces == 2         \* K: pieces that decode a chunk
NumPieces == 5         \* N: pieces of a chunk, one per host
PieceSize == 1         \* bytes of a piece
MemorySlack == 1       \* bytes of the memory budget beyond one chunk

Word == 2^WordBits
Callers == {1, 2}       \* the concurrent Download calls

(* uint64 and int64 arithmetic: results wrap. *)
U64(x) == x % Word
I64(x) == LET y == x % Word IN IF y >= Word \div 2 THEN y - Word ELSE y

Nil == <<>>

-----------------------------------------------------------------------------
(* Errors.  An error is the sequence of the leaf errors composed into it,  *)
(* oldest first; nil is the empty sequence.                                *)

Compose(e1, e2) == e1 \o e2

RECURSIVE ErrorString(_)
ErrorString(e) ==
    IF Len(e) = 0 THEN <<>>
    ELSE IF Len(e) = 1 THEN <<e[1]>>
    ELSE <<"[">> \o ErrorString(SubSeq(e, 1, Len(e) - 1)) \o <<"; ", e[Len(e)], "]">>

ErrShutdown == <<"download interrupted by shutdown">>

(* The error the k-th chunk of a download fails with. *)
ChunkErrorNames == <<"insufficient hosts", "decode failed", "write failed">>
ChunkError(k) == <<ChunkErrorNames[((k - 1) % Len(ChunkErrorNames)) + 1]>>

-----------------------------------------------------------------------------
(* The download object. *)

NoDownload ==
    [exists |-> FALSE, closes |-> 0, err |-> Nil, chunksRemaining |-> 0,
     endTime |-> 0, staticStartTime |-> 0, destClosed |-> 0,
     destinationString |-> <<>>, destinationType |-> "",
     staticLength |-> 0, staticOffset |-> 0, staticSiaPath |-> "",
     staticOverdrive |-> 0, critical |-> FALSE, closeLogged |-> FALSE,
     atomicDataReceived |-> 0, atomicTotalDataTransfered |-> 0]

staticComplete(d) == d.closes > 0

(* Faulty variants of managedFail, one fault each. *)
managedFail_Overwrite(d, err, closeErr) ==
    LET complete == staticComplete(d) IN
    IF complete /\ d.err # Nil
    THEN [d EXCEPT !.err = err]
    ELSE IF complete /\ d.err = Nil
    THEN [d EXCEPT !.critical = TRUE]
    ELSE [d EXCEPT !.err = err, !.closes = @ + 1, !.destClosed = @ + 1,
                   !.closeLogged = @ \/ closeErr]

managedFail_Reorder(d, err, closeErr) ==
    LET complete == staticComplete(d) IN
    IF complete /\ d.err # Nil
    THEN [d EXCEPT !.err = Compose(err, d.err)]
    ELSE IF complete /\ d.err = Nil
    THEN [d EXCEPT !.critical = TRUE]
    ELSE [d EXCEPT !.err = err, !.closes = @ + 1, !.destClosed = @ + 1,
                   !.closeLogged = @ \/ closeErr]

managedFail_PropagateClose(d, err, closeErr) ==
    LET complete == staticComplete(d) IN
    IF complete /\ d.err # Nil
    THEN [d EXCEPT !.err = Compose(d.err, err)]
    ELSE IF complete /\ d.err = Nil
    THEN [d EXCEPT !.critical = TRUE]
    ELSE [d EXCEPT !.err = IF closeErr THEN <<"close failed">> ELSE err,
                   !.closes = @ + 1, !.destClosed = @ + 1,
                   !.closeLogged = @ \/ closeErr]

managedFail_NoErr(d, err, closeErr) ==
    LET complete == staticComplete(d) IN
    IF complete /\ d.err # Nil
    THEN [d EXCEPT !.err = Compose(d.err, err)]
    ELSE IF complete /\ d.err = Nil
    THEN [d EXCEPT !.critical = TRUE]
    ELSE [d EXCEPT !.closes = @ + 1, !.destClosed = @ + 1,
                   !.closeLogged = @ \/ closeErr]

(* managedFail, one critical section of d.mu.  closeErr: destination.Close *)
(* returned an error, which is logged.                                     *)
managedFail(d, err, closeErr) ==
    LET complete == staticComplete(d) IN
    IF complete /\ d.err # Nil
    THEN [d EXCEPT !.err = Compose(d.err, err)]
    ELSE IF complete /\ d.err = Nil
    THEN [d EXCEPT !.critical = TRUE]
    ELSE [d EXCEPT !.err = err, !.closes = @ + 1, !.destClosed = @ + 1,
                   !.closeLogged = @ \/ closeErr]

Err(d) == d.err

-----------------------------------------------------------------------------
(* Download's parameter validation and newDownload's input validation.     *)

DefaultOverdrive == 2

FileExists(path) == path = "f"

IsAbs(path) == Len(path) > 0 /\ path[1] = "/"

(* The destinationType that Download hands to newDownload. *)
DestinationTypeOf(p) == IF p.Httpwriter THEN "http stream" ELSE "file"

(* Faulty variant: the sentinel is not expanded. *)
ExpandLength_None(p, size) == p.Length

(* The sentinel: a length of 0 becomes file.size - offset. *)
ExpandLength(p, size) ==
    IF p.Length = 0 THEN U64(size - p.Offset) ELSE p.Length

(* Faulty variant: a relative destination path is let through. *)
PreflightError_AnyPath(p, size) ==
    IF ~FileExists(p.SiaPath) THEN <<"no file with that path">>
    ELSE IF p.Async /\ p.Httpwriter
    THEN <<"cannot async download to http response">>
    ELSE IF p.Httpwriter /\ p.Destination # <<>>
    THEN <<"destination cannot be specified when downloading to http response">>
    ELSE IF ~p.Httpwriter /\ p.Destination = <<>>
    THEN <<"destination not supplied">>
    ELSE IF p.Offset = size THEN <<"offset equals filesize">>
    ELSE IF U64(p.Offset + ExpandLength(p, size)) > size
    THEN <<"offset and length combination invalid">>
    ELSE Nil

(* Download's checks up to the offset/length check; Nil when all pass. *)
PreflightError(p, size) ==
    IF ~FileExists(p.SiaPath) THEN <<"no file with that path">>
    ELSE IF p.Async /\ p.Httpwriter
    THEN <<"cannot async download to http response">>
    ELSE IF p.Httpwriter /\ p.Destination # <<>>
    THEN <<"destination cannot be specified when downloading to http response">>
    ELSE IF ~p.Httpwriter /\ p.Destination = <<>>
    THEN <<"destination not supplied">>
    ELSE IF p.Destination # <<>> /\ ~IsAbs(p.Destination)
    THEN <<"destination must be an absolute path">>
    ELSE IF p.Offset = size THEN <<"offset equals filesize">>
    ELSE IF U64(p.Offset + ExpandLength(p, size)) > size
    THEN <<"offset and length combination invalid">>
    ELSE Nil

(* Faulty variant: the boundary of the file is not checked. *)
newDownloadError_NoBoundary(offset, length, size) ==
    IF length <= 0
    THEN <<"download length must be a positive whole number">>
    ELSE Nil

(* newDownload's input validation on (offset, length); Nil when it passes. *)
newDownloadError(offset, length, size) ==
    IF length <= 0
    THEN <<"download length must be a positive whole number">>
    ELSE IF U64(offset + length) > size
    THEN <<"download is requesting data past the boundary of the file">>
    ELSE Nil

MinChunk(offset, cs) == offset \div cs
MaxChunk(offset, length, cs) == U64(offset + length - 1) \div cs

(* len of chunkMaps; make panics when it is out of range. *)
NumChunkMaps(minChunk, maxChunk) == U64(maxChunk - minChunk + 1)
MakePanics(n) == n >= Word \div 2

staticFetchOffset(i, minChunk, offset, cs) ==
    IF i = minChunk THEN offset % cs ELSE 0

(* Faulty variant: the last chunk is fetched to its end. *)
staticFetchLength_Full(i, minChunk, maxChunk, offset, length, cs) ==
    U64(cs - staticFetchOffset(i, minChunk, offset, cs))

staticFetchLength(i, minChunk, maxChunk, offset, length, cs) ==
    IF i = maxChunk /\ U64(length + offset) % cs # 0
    THEN U64((U64(length + offset) % cs) - staticFetchOffset(i, minChunk, offset, cs))
    ELSE U64(cs - staticFetchOffset(i, minChunk, offset, cs))

(* The unfinishedDownloadChunk of chunk i. *)
BuildChunk(i, l, p, cs) ==
    [staticChunkIndex |-> i,
     staticFetchOffset |-> staticFetchOffset(i, l.minChunk, p.Offset, cs),
     staticFetchLength |->
        staticFetchLength(i, l.minChunk, l.maxChunk, p.Offset, p.Length, cs),
     staticWriteOffset |-> l.writeOffset,
     staticOverdrive |-> IF i < 2 THEN DefaultOverdrive ELSE 0,
     state |-> "queued",
     inFlight |-> 0, retrieved |-> 0, failed |-> 0,
     memoryReserved |-> 0, decodes |-> 0, decrements |-> 0]

NoLocals ==
    [minChunk |-> 0, maxChunk |-> 0, i |-> 0, writeOffset |-> 0, tmp |-> 0,
     via |-> "none"]

-----------------------------------------------------------------------------
(* Download: lookup, parameter validation, destination, newDownload up to  *)
(* the chunk loop.                                                         *)

NoRequest ==
    [SiaPath |-> "", Offset |-> 0, Length |-> 0, Destination |-> <<>>,
     Httpwriter |-> FALSE, Async |-> FALSE]

(* History of a call: the request as the caller made it, how the download *)
(* was completed, the errors its chunks failed it with.                    *)
NoGhost ==
    [asked |-> NoRequest, completedBy |-> "none", firstFail |-> Nil,
     lastFail |-> Nil, fails |-> 0]

Return(c, p, e) ==
    /\ pc' = [pc EXCEPT ![c] = "done"]
    /\ req' = [req EXCEPT ![c] = p]
    /\ ret' = [ret EXCEPT ![c] = e]
    /\ UNCHANGED <<loc, dl, clock>>

NewDownloadObject(p, now) ==
    [NoDownload EXCEPT !.exists = TRUE,
                       !.staticStartTime = now,
                       !.destinationString = p.Destination,
                       !.staticLength = p.Length,
                       !.staticOffset = p.Offset,
                       !.staticOverdrive = DefaultOverdrive,
                       !.staticSiaPath = p.SiaPath]

DownloadCall(c, R, OpenErrs) ==
    /\ pc[c] = "idle"
    /\ \E p \in R, openErr \in OpenErrs :
         LET pre == PreflightError(p, fsize)
             q == [p EXCEPT !.Length = ExpandLength(p, fsize)]
             nd == newDownloadError(q.Offset, q.Length, fsize)
             minC == MinChunk(q.Offset, csize)
             maxC == MaxChunk(q.Offset, q.Length, csize)
         IN  /\ ghost' = [ghost EXCEPT ![c].asked = p]
             /\ IF pre # Nil THEN Return(c, p, pre)
                ELSE IF ~p.Httpwriter /\ openErr
                THEN Return(c, q, <<"open failed">>)
                ELSE IF nd # Nil THEN Return(c, q, nd)
                ELSE /\ req' = [req EXCEPT ![c] = q]
                     /\ clock' = clock + 1
                     /\ UNCHANGED ret
                     /\ IF MakePanics(NumChunkMaps(minC, maxC))
                        THEN /\ pc' = [pc EXCEPT ![c] = "panic"]
                             /\ UNCHANGED <<loc, dl>>
                        ELSE /\ dl' = [dl EXCEPT ![c] =
                                        NewDownloadObject(q, clock + 1)]
                             /\ loc' = [loc EXCEPT ![c] =
                                   [minChunk |-> minC, maxChunk |-> maxC,
                                    i |-> minC, writeOffset |-> 0, tmp |-> 0,
                                    via |-> "none"]]
                             /\ pc' = [pc EXCEPT ![c] =
                                   IF minC <= maxC THEN "load" ELSE "append"]
    /\ UNCHANGED <<fsize, csize, chunks, heap, newDownloads, sched,
                   stopped, downloadHistory, hist>>

(* newDownload called with its own parameters, not through Download. *)
NewDownloadCall(c, R) ==
    /\ pc[c] = "idle"
    /\ \E p \in R :
         LET nd == newDownloadError(p.Offset, p.Length, fsize)
             minC == MinChunk(p.Offset, csize)
             maxC == MaxChunk(p.Offset, p.Length, csize)
         IN  /\ ghost' = [ghost EXCEPT ![c].asked = p]
             /\ IF nd # Nil THEN Return(c, p, nd)
                ELSE /\ req' = [req EXCEPT ![c] = p]
                     /\ clock' = clock + 1
                     /\ UNCHANGED ret
                     /\ IF MakePanics(NumChunkMaps(minC, maxC))
                        THEN /\ pc' = [pc EXCEPT ![c] = "panic"]
                             /\ UNCHANGED <<loc, dl>>
                        ELSE /\ dl' = [dl EXCEPT ![c] =
                                        NewDownloadObject(p, clock + 1)]
                             /\ loc' = [loc EXCEPT ![c] =
                                   [minChunk |-> minC, maxChunk |-> maxC,
                                    i |-> minC, writeOffset |-> 0, tmp |-> 0,
                                    via |-> "none"]]
                             /\ pc' = [pc EXCEPT ![c] =
                                   IF minC <= maxC THEN "load" ELSE "append"]
    /\ UNCHANGED <<fsize, csize, chunks, heap, newDownloads, sched,
                   stopped, downloadHistory, hist>>

(* d.chunksRemaining++ is not under d.mu: a load and a store. *)
LoopLoad(c) ==
    /\ pc[c] = "load"
    /\ loc' = [loc EXCEPT ![c].tmp = dl[c].chunksRemaining]
    /\ pc' = [pc EXCEPT ![c] = "store"]
    /\ UNCHANGED <<fsize, csize, req, ret, dl, ghost, chunks, heap, newDownloads,
                   sched, stopped, downloadHistory, hist, clock>>

LoopStore(c) ==
    /\ pc[c] = "store"
    /\ dl' = [dl EXCEPT ![c].chunksRemaining = U64(loc[c].tmp + 1)]
    /\ pc' = [pc EXCEPT ![c] = "push"]
    /\ UNCHANGED <<fsize, csize, req, ret, loc, ghost, chunks, heap, newDownloads,
                   sched, stopped, downloadHistory, hist, clock>>

(* r.managedAddChunkToDownloadHeap(udc) *)
LoopPush(c) ==
    /\ pc[c] = "push"
    /\ chunks' = [chunks EXCEPT ![c] =
                    Append(@, BuildChunk(loc[c].i, loc[c], req[c], csize))]
    /\ heap' = heap \cup {<<c, Len(chunks[c]) + 1>>}
    /\ pc' = [pc EXCEPT ![c] = "wake"]
    /\ UNCHANGED <<fsize, csize, req, ret, loc, dl, ghost, newDownloads, sched,
                   stopped, downloadHistory, hist, clock>>

(* Faulty variants of the wake: every send is queued; nothing is sent. *)
LoopWake_Queued(c) ==
    /\ pc[c] = "wake"
    /\ newDownloads' = newDownloads + 1
    /\ LET udc == chunks[c][Len(chunks[c])]
           next == U64(loc[c].i + 1)
       IN  /\ loc' = [loc EXCEPT ![c].i = next,
                                 ![c].writeOffset =
                                     I64(@ + I64(udc.staticFetchLength))]
           /\ pc' = [pc EXCEPT ![c] =
                        IF next <= loc[c].maxChunk THEN "load" ELSE "append"]
    /\ UNCHANGED <<fsize, csize, req, ret, dl, ghost, chunks, heap, sched,
                   stopped, downloadHistory, hist, clock>>

LoopWake_NoSend(c) ==
    /\ pc[c] = "wake"
    /\ LET udc == chunks[c][Len(chunks[c])]
           next == U64(loc[c].i + 1)
       IN  /\ loc' = [loc EXCEPT ![c].i = next,
                                 ![c].writeOffset =
                                     I64(@ + I64(udc.staticFetchLength))]
           /\ pc' = [pc EXCEPT ![c] =
                        IF next <= loc[c].maxChunk THEN "load" ELSE "append"]
    /\ UNCHANGED <<fsize, csize, req, ret, dl, ghost, chunks, heap,
                   newDownloads, sched, stopped, downloadHistory, hist, clock>>

(* The non-blocking send on r.newDownloads, then the loop's i++. *)
LoopWake(c) ==
    /\ pc[c] = "wake"
    /\ newDownloads' = 1
    /\ LET udc == chunks[c][Len(chunks[c])]
           next == U64(loc[c].i + 1)
       IN  /\ loc' = [loc EXCEPT ![c].i = next,
                                 ![c].writeOffset =
                                     I64(@ + I64(udc.staticFetchLength))]
           /\ pc' = [pc EXCEPT ![c] =
                        IF next <= loc[c].maxChunk THEN "load" ELSE "append"]
    /\ UNCHANGED <<fsize, csize, req, ret, dl, ghost, chunks, heap, sched,
                   stopped, downloadHistory, hist, clock>>

(* r.downloadHistory = append(r.downloadHistory, d), under downloadHistoryMu *)
HistoryAppend(c) ==
    /\ pc[c] = "append"
    /\ hist.pc = "idle"
    /\ downloadHistory' = Append(downloadHistory, c)
    /\ pc' = [pc EXCEPT ![c] = "wait"]
    /\ UNCHANGED <<fsize, csize, req, ret, loc, dl, ghost, chunks, heap,
                   newDownloads, sched, stopped, hist, clock>>

(* Faulty variants of the select: async skips the wait; the shutdown case   *)
(* fails the download; there is no shutdown case.                          *)
WaitComplete_Async(c) ==
    /\ pc[c] = "wait"
    /\ staticComplete(dl[c]) \/ req[c].Async
    /\ pc' = [pc EXCEPT ![c] = "readErr"]
    /\ loc' = [loc EXCEPT ![c].via = "complete"]
    /\ UNCHANGED <<fsize, csize, req, ret, dl, ghost, chunks, heap,
                   newDownloads, sched, stopped, downloadHistory, hist, clock>>

(* case <-d.completeChan *)
WaitComplete(c) ==
    /\ pc[c] = "wait"
    /\ staticComplete(dl[c])
    /\ pc' = [pc EXCEPT ![c] = "readErr"]
    /\ loc' = [loc EXCEPT ![c].via = "complete"]
    /\ UNCHANGED <<fsize, csize, req, ret, dl, ghost, chunks, heap,
                   newDownloads, sched, stopped, downloadHistory, hist, clock>>

WaitStop_Fails(c) ==
    /\ pc[c] = "wait"
    /\ stopped
    /\ pc' = [pc EXCEPT ![c] = "done"]
    /\ ret' = [ret EXCEPT ![c] = ErrShutdown]
    /\ loc' = [loc EXCEPT ![c].via = "stop"]
    /\ dl' = [dl EXCEPT ![c] = managedFail(@, ErrShutdown, FALSE)]
    /\ UNCHANGED <<fsize, csize, req, ghost, chunks, heap, newDownloads,
                   sched, stopped, downloadHistory, hist, clock>>

WaitStop_NoStopCase(c) ==
    /\ FALSE
    /\ UNCHANGED vars

(* case <-r.tg.StopChan() *)
WaitStop(c) ==
    /\ pc[c] = "wait"
    /\ stopped
    /\ pc' = [pc EXCEPT ![c] = "done"]
    /\ ret' = [ret EXCEPT ![c] = ErrShutdown]
    /\ loc' = [loc EXCEPT ![c].via = "stop"]
    /\ UNCHANGED <<fsize, csize, req, dl, ghost, chunks, heap, newDownloads,
                   sched, stopped, downloadHistory, hist, clock>>

(* return d.Err() *)
ReadErr(c) ==
    /\ pc[c] = "readErr"
    /\ ret' = [ret EXCEPT ![c] = Err(dl[c])]
    /\ pc' = [pc EXCEPT ![c] = "done"]
    /\ UNCHANGED <<fsize, csize, req, loc, dl, ghost, chunks, heap, newDownloads,
                   sched, stopped, downloadHistory, hist, clock>>

(* r.tg.Stop() *)
Stop ==
    /\ ~stopped
    /\ stopped' = TRUE
    /\ UNCHANGED <<fsize, csize, pc, req, ret, loc, dl, ghost, chunks, heap,
                   newDownloads, sched, downloadHistory, hist, clock>>

-----------------------------------------------------------------------------
(* The download loop: it drains the heap, then waits for a wake or for     *)
(* shutdown.                                                               *)

StartTime(ch) == dl[ch[1]].staticStartTime

(* The heap's head: earliest start time, then insertion order. *)
HeapHead ==
    CHOOSE ch \in heap :
        \A o \in heap :
            \/ StartTime(ch) < StartTime(o)
            \/ StartTime(ch) = StartTime(o) /\ ch[2] <= o[2]

SchedPop ==
    /\ sched = "drain"
    /\ heap # {}
    /\ LET ch == HeapHead
       IN  /\ heap' = heap \ {ch}
           /\ chunks' = [chunks EXCEPT ![ch[1]][ch[2]].state = "inflight"]
    /\ UNCHANGED <<fsize, csize, pc, req, ret, loc, dl, ghost, newDownloads,
                   sched, stopped, downloadHistory, hist, clock>>

SchedWait ==
    /\ sched = "drain"
    /\ heap = {}
    /\ sched' = "idle"
    /\ UNCHANGED <<fsize, csize, pc, req, ret, loc, dl, ghost, chunks, heap,
                   newDownloads, stopped, downloadHistory, hist, clock>>

SchedWake ==
    /\ sched = "idle"
    /\ newDownloads = 1
    /\ newDownloads' = 0
    /\ sched' = "drain"
    /\ UNCHANGED <<fsize, csize, pc, req, ret, loc, dl, ghost, chunks, heap,
                   stopped, downloadHistory, hist, clock>>

SchedStop ==
    /\ sched = "idle"
    /\ stopped
    /\ sched' = "stopped"
    /\ UNCHANGED <<fsize, csize, pc, req, ret, loc, dl, ghost, chunks, heap,
                   newDownloads, stopped, downloadHistory, hist, clock>>

-----------------------------------------------------------------------------
(* The end of a chunk: decoded and written, or failed. *)

(* The success path: one chunk less remains; at zero the download is       *)
(* complete.                                                               *)
ChunkDone(d, now) ==
    LET left == U64(d.chunksRemaining - 1)
    IN  IF left = 0
        THEN [d EXCEPT !.chunksRemaining = left, !.endTime = now,
                       !.closes = @ + 1]
        ELSE [d EXCEPT !.chunksRemaining = left]

ChunkSuccess(c, k) ==
    /\ chunks[c][k].state = "inflight"
    /\ chunks' = [chunks EXCEPT ![c][k].state = "done"]
    /\ dl' = [dl EXCEPT ![c] = ChunkDone(@, clock)]
    /\ ghost' = [ghost EXCEPT ![c].completedBy =
                    IF @ = "none" /\ dl'[c].closes > 0 THEN "success" ELSE @]
    /\ UNCHANGED <<fsize, csize, pc, req, ret, loc, heap, newDownloads, sched,
                   stopped, downloadHistory, hist, clock>>

(* A chunk fails its download through managedFail. *)
ChunkFail(c, k) ==
    /\ chunks[c][k].state = "inflight"
    /\ \E closeErr \in BOOLEAN :
       LET e == ChunkError(k) IN
         /\ dl' = [dl EXCEPT ![c] = managedFail(@, e, closeErr)]
         /\ ghost' = [ghost EXCEPT
                ![c].completedBy =
                    IF @ = "none" /\ dl'[c].closes > 0 THEN "fail" ELSE @,
                ![c].firstFail = IF @ = Nil THEN e ELSE @,
                ![c].lastFail = e,
                ![c].fails = @ + 1]
    /\ chunks' = [chunks EXCEPT ![c][k].state = "failed"]
    /\ UNCHANGED <<fsize, csize, pc, req, ret, loc, heap, newDownloads, sched,
                   stopped, downloadHistory, hist, clock>>

-----------------------------------------------------------------------------
(* The chunk at the level of its pieces: memory reservation, piece         *)
(* dispatch under the overdrive cap, piece delivery and failure, the       *)
(* single decode, the release of the memory.  Piece slots are counted by   *)
(* state: in flight, retrieved, failed; the rest are not yet dispatched.   *)

ChunkMemory == (MinPieces + NumPieces) * PieceSize

(* The budget holds one chunk, not two. *)
MemoryBudget == ChunkMemory + MemorySlack

RECURSIVE SumMemory(_)
SumMemory(s) ==
    IF s = <<>> THEN 0 ELSE s[1].memoryReserved + SumMemory(Tail(s))

(* The bytes reserved for the chunks of download c. *)
OutstandingOf(c) == SumMemory(chunks[c])

RECURSIVE OutstandingIn(_)
OutstandingIn(S) ==
    IF S = {} THEN 0
    ELSE LET c == CHOOSE x \in S : TRUE
         IN  OutstandingOf(c) + OutstandingIn(S \ {c})

Outstanding == OutstandingIn(Callers)

(* Faulty variant: Request never blocks. *)
MemoryAvailable_Unbounded(n) == TRUE

(* Request(n) returns when n bytes are available. *)
MemoryAvailable(n) == Outstanding + n <= MemoryBudget

Untried(udc) == NumPieces - udc.inFlight - udc.retrieved - udc.failed

(* Faulty variant: pieces are dispatched without the overdrive cap. *)
CanDispatch_NoCap(udc) == Untried(udc) > 0

(* A further piece-fetch may be placed. *)
CanDispatch(udc) ==
    /\ Untried(udc) > 0
    /\ udc.inFlight < MinPieces + udc.staticOverdrive

(* Faulty variant: every delivery with K pieces in hand triggers a decode. *)
Deliver_NoLatch(udc) ==
    LET got == [udc EXCEPT !.inFlight = @ - 1, !.retrieved = @ + 1]
    IN  IF got.retrieved >= MinPieces
        THEN [got EXCEPT !.state = "decoding", !.decodes = @ + 1]
        ELSE got

(* A piece is delivered: the decode is triggered when the count first      *)
(* reaches K, guarded by the single-shot flag.                             *)
Deliver(udc) ==
    LET got == [udc EXCEPT !.inFlight = @ - 1, !.retrieved = @ + 1]
    IN  IF got.retrieved >= MinPieces /\ got.decodes = 0
        THEN [got EXCEPT !.state = "decoding", !.decodes = 1]
        ELSE got

(* Faulty variant: a decoded chunk counts with its whole size. *)
DataReceived_WholeChunk(d, udc) ==
    [d EXCEPT !.atomicDataReceived = U64(@ + csize)]

(* The decoded and written bytes of a chunk are added to the progress. *)
DataReceived(d, udc) ==
    [d EXCEPT !.atomicDataReceived = U64(@ + udc.staticFetchLength)]

(* The chunk fails its download through managedFail. *)
FailsDownload(c, e) ==
    /\ dl' = [dl EXCEPT ![c] = managedFail(@, e, FALSE)]
    /\ ghost' = [ghost EXCEPT
           ![c].completedBy =
               IF @ = "none" /\ dl'[c].closes > 0 THEN "fail" ELSE @,
           ![c].firstFail = IF @ = Nil THEN e ELSE @,
           ![c].lastFail = e,
           ![c].fails = @ + 1]

(* The scheduler takes the head of the heap and reserves its memory; the   *)
(* request blocks the loop while the memory is not available.              *)
SchedReserve ==
    /\ sched = "drain"
    /\ heap # {}
    /\ MemoryAvailable(ChunkMemory)
    /\ LET ch == HeapHead
       IN  /\ heap' = heap \ {ch}
           /\ chunks' = [chunks EXCEPT ![ch[1]][ch[2]] =
                            [@ EXCEPT !.state = "reserved",
                                      !.memoryReserved = ChunkMemory]]
    /\ UNCHANGED <<fsize, csize, pc, req, ret, loc, dl, ghost, newDownloads,
                   sched, stopped, downloadHistory, hist, clock>>

(* Shutdown ends a blocked request: the chunk fails without memory. *)
SchedMemoryDenied ==
    /\ sched = "drain"
    /\ heap # {}
    /\ ~MemoryAvailable(ChunkMemory)
    /\ stopped
    /\ LET ch == HeapHead
       IN  /\ heap' = heap \ {ch}
           /\ chunks' = [chunks EXCEPT ![ch[1]][ch[2]].state = "failed"]
           /\ FailsDownload(ch[1], <<"memory denied">>)
    /\ UNCHANGED <<fsize, csize, pc, req, ret, loc, newDownloads, sched,
                   stopped, downloadHistory, hist, clock>>

(* A piece-fetch is placed on a worker: first dispatch, overdrive or the   *)
(* promotion of a standby.                                                 *)
Dispatch(c, k) ==
    /\ chunks[c][k].state \in {"reserved", "awaiting"}
    /\ CanDispatch(chunks[c][k])
    /\ chunks' = [chunks EXCEPT ![c][k] =
                    [@ EXCEPT !.inFlight = @ + 1, !.state = "awaiting"]]
    /\ UNCHANGED <<fsize, csize, pc, req, ret, loc, dl, ghost, heap,
                   newDownloads, sched, stopped, downloadHistory, hist, clock>>

(* A worker delivers a piece; its bytes count as transferred, late or not. *)
PieceRetrieved(c, k) ==
    /\ chunks[c][k].inFlight > 0
    /\ chunks' = [chunks EXCEPT ![c][k] = Deliver(@)]
    /\ dl' = [dl EXCEPT ![c].atomicTotalDataTransfered = U64(@ + PieceSize)]
    /\ UNCHANGED <<fsize, csize, pc, req, ret, loc, ghost, heap, newDownloads,
                   sched, stopped, downloadHistory, hist, clock>>

(* A fetch fails or times out, or its worker is terminated: the in-flight  *)
(* mark is cleared.                                                        *)
PieceFailed(c, k) ==
    /\ chunks[c][k].inFlight > 0
    /\ chunks' = [chunks EXCEPT ![c][k] =
                    [@ EXCEPT !.inFlight = @ - 1, !.failed = @ + 1]]
    /\ UNCHANGED <<fsize, csize, pc, req, ret, loc, dl, ghost, heap,
                   newDownloads, sched, stopped, downloadHistory, hist, clock>>

(* retrieved + in-flight + standby-eligible < K: insufficient hosts. *)
ChunkInsufficient(c, k) ==
    /\ chunks[c][k].state \in {"reserved", "awaiting"}
    /\ chunks[c][k].retrieved + chunks[c][k].inFlight + Untried(chunks[c][k])
          < MinPieces
    /\ chunks' = [chunks EXCEPT ![c][k] =
                    [@ EXCEPT !.state = "failed", !.memoryReserved = 0]]
    /\ FailsDownload(c, <<"insufficient hosts">>)
    /\ UNCHANGED <<fsize, csize, pc, req, ret, loc, heap, newDownloads, sched,
                   stopped, downloadHistory, hist, clock>>

(* The decode and the write of the chunk: on success the memory is         *)
(* released and one chunk less remains; on failure the download fails.     *)
DecodeWrite(c, k) ==
    /\ chunks[c][k].state = "decoding"
    /\ \E ok \in BOOLEAN :
         IF ok
         THEN /\ chunks' = [chunks EXCEPT ![c][k] =
                    [@ EXCEPT !.state = "done", !.memoryReserved = 0,
                              !.decrements = @ + 1]]
              /\ dl' = [dl EXCEPT ![c] =
                    ChunkDone(DataReceived(@, chunks[c][k]), clock)]
              /\ ghost' = [ghost EXCEPT ![c].completedBy =
                    IF @ = "none" /\ dl'[c].closes > 0 THEN "success" ELSE @]
         ELSE /\ chunks' = [chunks EXCEPT ![c][k] =
                    [@ EXCEPT !.state = "failed", !.memoryReserved = 0]]
              /\ FailsDownload(c, ChunkError(k))
    /\ UNCHANGED <<fsize, csize, pc, req, ret, loc, heap, newDownloads, sched,
                   stopped, downloadHistory, hist, clock>>

-----------------------------------------------------------------------------
(* DownloadHistory: holds downloadHistoryMu from start to return; for each *)
(* download a snapshot under d.mu, then d.Err() for the nil check, then    *)
(* d.Err() for the string.                                                 *)

(* Faulty variant: the history is walked oldest first. *)
HistDownload_OldestFirst == downloadHistory[hist.i + 1]

(* r.downloadHistory[len(r.downloadHistory)-i-1] *)
HistDownload == downloadHistory[Len(downloadHistory) - hist.i]

DownloadInfo(c, d) ==
    [id |-> c,
     Destination |-> d.destinationString,
     DestinationType |-> d.destinationType,
     Length |-> d.staticLength,
     Offset |-> d.staticOffset,
     SiaPath |-> d.staticSiaPath,
     Completed |-> staticComplete(d),
     EndTime |-> d.endTime,
     StartTime |-> d.staticStartTime,
     Error |-> <<>>]

HistAdvance(h) ==
    [h EXCEPT !.i = @ + 1,
              !.pc = IF h.i + 1 < Len(downloadHistory) THEN "snap" ELSE "return"]

HistStart ==
    /\ hist.pc = "idle"
    /\ hist.calls < MaxHistoryCalls
    /\ hist' = [hist EXCEPT !.i = 0, !.out = <<>>,
                            !.pc = IF Len(downloadHistory) = 0 THEN "return"
                                   ELSE "snap"]
    /\ UNCHANGED <<fsize, csize, pc, req, ret, loc, dl, ghost, chunks, heap,
                   newDownloads, sched, stopped, downloadHistory, clock>>

HistSnap ==
    /\ hist.pc = "snap"
    /\ hist' = [hist EXCEPT
                   !.out = Append(@, DownloadInfo(HistDownload, dl[HistDownload])),
                   !.pc = "errcheck"]
    /\ UNCHANGED <<fsize, csize, pc, req, ret, loc, dl, ghost, chunks, heap,
                   newDownloads, sched, stopped, downloadHistory, clock>>

HistErrCheck ==
    /\ hist.pc = "errcheck"
    /\ hist' = IF Err(dl[HistDownload]) # Nil
               THEN [hist EXCEPT !.pc = "errstr"]
               ELSE HistAdvance(hist)
    /\ UNCHANGED <<fsize, csize, pc, req, ret, loc, dl, ghost, chunks, heap,
                   newDownloads, sched, stopped, downloadHistory, clock>>

HistErrStr ==
    /\ hist.pc = "errstr"
    /\ hist' = HistAdvance([hist EXCEPT !.out[hist.i + 1].Error =
                                ErrorString(Err(dl[HistDownload]))])
    /\ UNCHANGED <<fsize, csize, pc, req, ret, loc, dl, ghost, chunks, heap,
                   newDownloads, sched, stopped, downloadHistory, clock>>

HistReturn ==
    /\ hist.pc = "return"
    /\ hist' = [hist EXCEPT !.pc = "idle", !.calls = @ + 1, !.i = 0, !.out = <<>>]
    /\ UNCHANGED <<fsize, csize, pc, req, ret, loc, dl, ghost, chunks, heap,
                   newDownloads, sched, stopped, downloadHistory, clock>>

-----------------------------------------------------------------------------
(* Specifications. *)

Destinations == {<<>>, <<"/", "d">>, <<"d">>}

AllRequests ==
    [SiaPath : {"f", "missing"}, Offset : 0..(Word - 1), Length : 0..(Word - 1),
     Destination : Destinations, Httpwriter : BOOLEAN, Async : BOOLEAN]

(* The requests of the concurrent specifications: call 1 takes the whole   *)
(* file (two chunks, by the sentinel) to an http response, call 2 one      *)
(* chunk to a file, asynchronously.                                        *)
ConcRequests ==
    <<[SiaPath |-> "f", Offset |-> 0, Length |-> 0,
       Destination |-> <<>>, Httpwriter |-> TRUE, Async |-> FALSE],
      [SiaPath |-> "f", Offset |-> 1, Length |-> 1,
       Destination |-> <<"/", "d">>, Httpwriter |-> FALSE, Async |-> TRUE]>>

InitRest ==
    /\ pc = [c \in Callers |-> "idle"]
    /\ req = [c \in Callers |-> NoRequest]
    /\ ret = [c \in Callers |-> Nil]
    /\ loc = [c \in Callers |-> NoLocals]
    /\ dl = [c \in Callers |-> NoDownload]
    /\ ghost = [c \in Callers |-> NoGhost]
    /\ chunks = [c \in Callers |-> <<>>]
    /\ heap = {}
    /\ newDownloads = 0
    /\ sched = "drain"
    /\ stopped = FALSE
    /\ downloadHistory = <<>>
    /\ hist = [pc |-> "idle", i |-> 0, out |-> <<>>, calls |-> 0]
    /\ clock = 0

Init ==
    /\ fsize = ConcFileSize
    /\ csize = ConcChunkSize
    /\ InitRest

CallerStep(c) ==
    \/ LoopLoad(c)
    \/ LoopStore(c)
    \/ LoopPush(c)
    \/ LoopWake(c)
    \/ HistoryAppend(c)
    \/ WaitComplete(c)
    \/ WaitStop(c)
    \/ ReadErr(c)

HistStep == HistSnap \/ HistErrCheck \/ HistErrStr \/ HistReturn

(* Two concurrent Download calls, the download loop, the chunks' ends and  *)
(* shutdown.  DownloadHistory, which writes nothing the other operations   *)
(* read, is left to HistSpec.                                              *)
Next ==
    \/ \E c \in Callers : DownloadCall(c, {ConcRequests[c]}, {FALSE})
    \/ \E c \in Callers : CallerStep(c)
    \/ \E c \in Callers : \E k \in DOMAIN chunks[c] : ChunkSuccess(c, k)
    \/ \E c \in Callers : \E k \in DOMAIN chunks[c] : ChunkFail(c, k)
    \/ SchedPop
    \/ SchedWait
    \/ SchedWake
    \/ SchedStop
    \/ Stop

Spec == Init /\ [][Next]_vars

(* Every runnable goroutine is eventually scheduled. *)
FairSpec == Spec /\ \A c \in Callers : WF_vars(CallerStep(c))

(* The download loop is a goroutine of its own and is scheduled too. *)
SchedStep == SchedPop \/ SchedWait \/ SchedWake

SchedFairSpec == FairSpec /\ WF_vars(SchedStep)

(* One Download call of two chunks with DownloadHistory running beside it. *)
HistNext ==
    \/ DownloadCall(1, {ConcRequests[1]}, {FALSE})
    \/ CallerStep(1)
    \/ \E k \in DOMAIN chunks[1] : ChunkSuccess(1, k)
    \/ \E k \in DOMAIN chunks[1] : ChunkFail(1, k)
    \/ SchedPop
    \/ SchedWait
    \/ SchedWake
    \/ SchedStop
    \/ Stop
    \/ HistStart
    \/ HistStep

HistSpec == Init /\ [][HistNext]_vars

(* The requests of ConcHistSpec: one chunk each. *)
HistRequests ==
    <<[SiaPath |-> "f", Offset |-> 0, Length |-> 1,
       Destination |-> <<>>, Httpwriter |-> TRUE, Async |-> FALSE],
      [SiaPath |-> "f", Offset |-> 1, Length |-> 1,
       Destination |-> <<"/", "d">>, Httpwriter |-> FALSE, Async |-> TRUE]>>

(* Two concurrent Download calls of one chunk each with DownloadHistory    *)
(* running beside them.                                                    *)
ConcHistNext ==
    \/ \E c \in Callers : DownloadCall(c, {HistRequests[c]}, {FALSE})
    \/ \E c \in Callers : CallerStep(c)
    \/ \E c \in Callers : \E k \in DOMAIN chunks[c] : ChunkSuccess(c, k)
    \/ \E c \in Callers : \E k \in DOMAIN chunks[c] : ChunkFail(c, k)
    \/ SchedPop
    \/ SchedWait
    \/ SchedWake
    \/ SchedStop
    \/ Stop
    \/ HistStart
    \/ HistStep

ConcHistSpec == Init /\ [][ConcHistNext]_vars

(* One Download call of two chunks, the second one partial, with the       *)
(* chunks handled piece by piece.                                          *)
ChunkInit ==
    /\ csize = MinPieces * PieceSize
    /\ fsize = 2 * csize - 1
    /\ InitRest

ChunkNext ==
    \/ DownloadCall(1, {ConcRequests[1]}, {FALSE})
    \/ CallerStep(1)
    \/ SchedReserve
    \/ SchedMemoryDenied
    \/ SchedWait
    \/ SchedWake
    \/ SchedStop
    \/ Stop
    \/ \E k \in DOMAIN chunks[1] : Dispatch(1, k)
    \/ \E k \in DOMAIN chunks[1] : PieceRetrieved(1, k)
    \/ \E k \in DOMAIN chunks[1] : PieceFailed(1, k)
    \/ \E k \in DOMAIN chunks[1] : ChunkInsufficient(1, k)
    \/ \E k \in DOMAIN chunks[1] : DecodeWrite(1, k)

ChunkSpec == ChunkInit /\ [][ChunkNext]_vars

(* One Download call at a time, over every file size, chunk size and       *)
(* request.                                                                *)
SeqInit ==
    /\ fsize \in 1..MaxFileSize
    /\ csize \in 2..MaxChunkSize
    /\ InitRest

SeqNext ==
    \/ DownloadCall(1, AllRequests, BOOLEAN)
    \/ LoopLoad(1)
    \/ LoopStore(1)
    \/ LoopPush(1)
    \/ LoopWake(1)
    \/ HistoryAppend(1)

SeqSpec == SeqInit /\ [][SeqNext]_vars

(* The parameters of a direct newDownload call: any offset and length. *)
NewRequests ==
    [SiaPath : {"f"}, Offset : 0..(Word - 1), Length : 0..(Word - 1),
     Destination : {<<>>}, Httpwriter : {TRUE}, Async : {FALSE}]

(* One newDownload call, over every file size, chunk size, offset and      *)
(* length.                                                                 *)
NewNext ==
    \/ NewDownloadCall(1, NewRequests)
    \/ LoopLoad(1)
    \/ LoopStore(1)
    \/ LoopPush(1)
    \/ LoopWake(1)

NewSpec == SeqInit /\ [][NewNext]_vars

-----------------------------------------------------------------------------
(* Properties. *)

(* The call got past the validation of Download and of newDownload. *)
Passed(c) == dl[c].exists \/ pc[c] = "panic"

(* newDownload's chunk loop has ended. *)
LoopDone(c) == dl[c].exists /\ pc[c] \in {"append", "wait", "readErr", "done"}

(* The request's range lies in the file, as true integers. *)
ValidRange(c) ==
    /\ req[c].Length >= 1
    /\ req[c].Offset < fsize
    /\ req[c].Offset + req[c].Length <= fsize

RECURSIVE SumFetchLength(_)
SumFetchLength(s) ==
    IF s = <<>> THEN 0 ELSE s[1].staticFetchLength + SumFetchLength(Tail(s))

ChunkJobExact(c, k) ==
    LET udc == chunks[c][k]
        i == udc.staticChunkIndex
    IN  /\ i = (req[c].Offset \div csize) + k - 1
        /\ 1 <= udc.staticFetchLength
        /\ udc.staticFetchOffset + udc.staticFetchLength <= csize
        /\ i * csize + udc.staticFetchOffset = req[c].Offset + udc.staticWriteOffset

(* C2: for a request whose range lies in the file, every chunk job that    *)
(* newDownload builds fetches at least one byte, stays inside its chunk    *)
(* and writes the file's byte offset + writeOffset at writeOffset; when    *)
(* the loop has ended there is one job for each chunk of                   *)
(* [minChunk, maxChunk] and the fetch lengths sum to the length.           *)
C2_ByteExactChunkJobs ==
    \A c \in Callers :
        (dl[c].exists /\ ValidRange(c)) =>
            /\ \A k \in DOMAIN chunks[c] : ChunkJobExact(c, k)
            /\ LoopDone(c) =>
                /\ Len(chunks[c]) =
                      ((req[c].Offset + req[c].Length - 1) \div csize)
                          - (req[c].Offset \div csize) + 1
                /\ SumFetchLength(chunks[c]) = req[c].Length

C2_Witness ==
    \E c \in Callers :
        /\ LoopDone(c)
        /\ ValidRange(c)
        /\ Len(chunks[c]) >= 3
        /\ chunks[c][1].staticFetchOffset > 0
        /\ chunks[c][Len(chunks[c])].staticFetchLength < csize

(* C3: every call that gets past validation has length >= 1,               *)
(* offset < file.size and offset + length <= file.size as true integers,   *)
(* so that minChunk <= maxChunk.                                           *)
C3_ValidationRejectsOutOfRange ==
    \A c \in Callers :
        Passed(c) =>
            /\ ValidRange(c)
            /\ MinChunk(req[c].Offset, csize)
                  <= MaxChunk(req[c].Offset, req[c].Length, csize)

IsPrefix(a, b) == Len(a) <= Len(b) /\ SubSeq(b, 1, Len(a)) = a

(* The call waits at the select and neither case is ready. *)
Blocked(c) == pc[c] = "wait" /\ ~staticComplete(dl[c]) /\ ~stopped

(* The call has returned from the select of Download. *)
ReturnedBy(c, case) == pc[c] = "done" /\ loc[c].via = case

(* C1: the completion signal of a download is closed at most once,         *)
(* whatever the interleaving of managedFail and of the chunks' success     *)
(* path.                                                                   *)
C1_ClosedExactlyOnce == \A c \in Callers : dl[c].closes <= 1

(* C4, as claimed: once the completion signal is raised, the value of      *)
(* Err() never changes.                                                    *)
C4_ErrFrozenOnceComplete ==
    [][\A c \in Callers :
          staticComplete(dl[c]) => Err(dl'[c]) = Err(dl[c])]_vars

(* C4, amended: once the completion signal is raised, Err() changes only   *)
(* by a later error being appended to an error: the earlier value stays    *)
(* a prefix, nil stays nil; DownloadHistory reports the string of the      *)
(* value Err() has when it reads it, the empty string for nil.             *)
C4_ErrOnlyExtendedOnceComplete ==
    [][/\ \A c \in Callers :
             staticComplete(dl[c]) =>
                 /\ IsPrefix(Err(dl[c]), Err(dl'[c]))
                 /\ Err(dl[c]) = Nil => Err(dl'[c]) = Nil
       /\ (hist.pc = "errstr" /\ hist'.pc # "errstr") =>
             hist'.out[hist.i + 1].Error = ErrorString(Err(dl[HistDownload]))
       /\ (hist.pc = "errcheck" /\ hist'.pc \notin {"errcheck", "errstr"}) =>
             /\ Err(dl[HistDownload]) = Nil
             /\ hist'.out[hist.i + 1].Error = <<>>]_vars

C4_Witness ==
    /\ hist.pc = "return"
    /\ staticComplete(dl[1])
    /\ Len(Err(dl[1])) = 2
    /\ Len(hist.out) = 1
    /\ hist.out[1].Completed
    /\ hist.out[1].Error = ErrorString(Err(dl[1]))

(* C5: managedFail(e2) on a download that is complete with error e1 leaves *)
(* the completion signal and the destination as they are and makes the     *)
(* error e1 followed by e2; on a download that is complete without error   *)
(* it leaves the error nil and only logs.                                  *)
C5_FailOnCompletedIsCumulative ==
    [][\A c \in Callers :
          (ghost'[c].fails = ghost[c].fails + 1 /\ staticComplete(dl[c])) =>
              IF dl[c].err # Nil
              THEN dl'[c] = [dl[c] EXCEPT
                                !.err = dl[c].err \o ghost'[c].lastFail]
              ELSE dl'[c] = [dl[c] EXCEPT !.critical = TRUE]]_vars

C5_Witness ==
    \E c \in Callers :
        /\ ghost[c].fails = 2
        /\ ghost[c].firstFail # ghost[c].lastFail
        /\ dl[c].err = ghost[c].firstFail \o ghost[c].lastFail
        /\ dl[c].closes = 1
        /\ dl[c].destClosed = 1

(* C6: the managedFail that completes a download closes the destination    *)
(* once and no later managedFail closes it again; the error of that call   *)
(* is the error of the download whether or not Close failed.               *)
C6_DestinationClosedOnceOnFirstFail ==
    \A c \in Callers :
        /\ dl[c].destClosed <= 1
        /\ ghost[c].completedBy = "fail" =>
              /\ dl[c].destClosed = 1
              /\ Err(dl[c]) # Nil
              /\ <<Err(dl[c])[1]>> = ghost[c].firstFail
              /\ ghost[c].fails = 1 => Err(dl[c]) = ghost[c].firstFail

C6_Witness ==
    \E c \in Callers :
        /\ ghost[c].completedBy = "fail"
        /\ dl[c].closeLogged
        /\ ghost[c].fails = 2
        /\ dl[c].destClosed = 1

(* C7, as claimed: a call with async = true does not wait for the          *)
(* completion of its download.                                             *)
C7_AsyncDoesNotWait == \A c \in Callers : req[c].Async => ~Blocked(c)

(* C7, amended: whether or not async is set, a call that has created its   *)
(* download leaves the select only when the completion signal is raised    *)
(* or when shutdown is signalled, and then with the shutdown error.        *)
C7_ReturnsOnlyWhenCompleteOrStopped ==
    \A c \in Callers :
        (dl[c].exists /\ pc[c] \in {"readErr", "done"}) =>
            \/ loc[c].via = "complete" /\ staticComplete(dl[c])
            \/ loc[c].via = "stop" /\ stopped /\ ret[c] = ErrShutdown

C7_Witness ==
    \E c \in Callers :
        /\ req[c].Async
        /\ ReturnedBy(c, "complete")
        /\ staticComplete(dl[c])
        /\ ~stopped

(* C8: a call that waits at the select when shutdown is signalled          *)
(* eventually returns, with the shutdown error when its download is not    *)
(* complete.                                                               *)
C8_ShutdownUnblocksDownload ==
    \A c \in Callers :
        (stopped /\ pc[c] = "wait") ~>
            /\ pc[c] = "done"
            /\ ~staticComplete(dl[c]) => ret[c] = ErrShutdown

C8_Witness ==
    \E c \in Callers :
        /\ ReturnedBy(c, "stop")
        /\ ret[c] = ErrShutdown
        /\ ~staticComplete(dl[c])

(* C9, as claimed: a download whose call returned on shutdown is complete  *)
(* and has an error.                                                       *)
C9_ShutdownFailsDownload ==
    \A c \in Callers :
        ReturnedBy(c, "stop") => staticComplete(dl[c]) /\ Err(dl[c]) # Nil

(* C9, amended: on shutdown the waiting call returns the shutdown error    *)
(* to its caller and leaves the download as it is: no completion signal    *)
(* is raised and no error is written by it.                                *)
C9_ShutdownLeavesDownload ==
    [][\A c \in Callers :
          (loc[c].via # "stop" /\ loc'[c].via = "stop") =>
              /\ ret'[c] = ErrShutdown
              /\ dl'[c] = dl[c]]_vars

C9_Witness ==
    /\ ReturnedBy(1, "stop")
    /\ ~staticComplete(dl[1])
    /\ hist.pc = "return"
    /\ Len(hist.out) = 1
    /\ ~hist.out[1].Completed
    /\ hist.out[1].Error = <<>>

(* C10, as claimed: a call that returns because a failure raised the       *)
(* completion signal returns the first error passed to managedFail.        *)
C10_ReturnsFirstError ==
    \A c \in Callers :
        (ReturnedBy(c, "complete") /\ ghost[c].completedBy = "fail") =>
            ret[c] = ghost[c].firstFail

(* C10, amended: such a call never reads a nil error; it returns an error  *)
(* that starts with the first error passed to managedFail, with the        *)
(* errors of later managedFail calls appended.                             *)
C10_ReturnStartsWithFirstError ==
    \A c \in Callers :
        /\ (pc[c] = "readErr" /\ ghost[c].completedBy = "fail") =>
              Err(dl[c]) # Nil
        /\ (ReturnedBy(c, "complete") /\ ghost[c].completedBy = "fail") =>
              /\ ret[c] # Nil
              /\ <<ret[c][1]>> = ghost[c].firstFail

C10_Witness ==
    \E c \in Callers :
        /\ ReturnedBy(c, "complete")
        /\ ghost[c].completedBy = "fail"
        /\ Len(ret[c]) = 2


-----------------------------------------------------------------------------
(* DownloadHistory's result is complete: the loop has ended. *)
HistResult == hist.pc = "return"

(* C11 as claimed: along the result of DownloadHistory the start times are *)
(* non-increasing.                                                         *)
C11_StartTimesNonIncreasing ==
    HistResult =>
        \A i, j \in DOMAIN hist.out :
            i < j => hist.out[i].StartTime >= hist.out[j].StartTime

(* C11: the history only grows at its end, and the result of               *)
(* DownloadHistory lists every download of the history, complete or not,   *)
(* the most recently appended first.                                       *)
C11_MostRecentlyAppendedFirst ==
    [][/\ IsPrefix(downloadHistory, downloadHistory')
       /\ \A i \in DOMAIN hist'.out :
             hist'.out[i].id = downloadHistory'[Len(downloadHistory') - i + 1]
       /\ hist'.pc = "return" => Len(hist'.out) = Len(downloadHistory')]_vars

(* Two downloads in the result, the older start time first, one of them    *)
(* not complete.                                                           *)
C11_Witness ==
    /\ HistResult
    /\ Len(hist.out) = 2
    /\ hist.out[1].StartTime < hist.out[2].StartTime
    /\ \E i \in 1..2 : ~hist.out[i].Completed

(* C12: every DownloadInfo of DownloadHistory carries the destination      *)
(* string, the destination-type label, the length after the sentinel, the  *)
(* offset and the siaPath of the request that created its download, and    *)
(* an error string that is non-empty only for a download with an error.    *)
C12_InfoCarriesRequest ==
    \A i \in DOMAIN hist.out :
        LET info == hist.out[i]
            p == req[info.id]
        IN  /\ info.Destination = p.Destination
            /\ info.DestinationType = DestinationTypeOf(p)
            /\ info.Length = p.Length
            /\ info.Offset = p.Offset
            /\ info.SiaPath = p.SiaPath
            /\ info.Error # <<>> => Err(dl[info.id]) # Nil

-----------------------------------------------------------------------------
(* The request names the file and exactly one sink: an absolute path, or   *)
(* an http response without async.                                         *)
SinkOK(p) ==
    \/ p.Httpwriter /\ p.Destination = <<>> /\ ~p.Async
    \/ ~p.Httpwriter /\ IsAbs(p.Destination)

(* The call has been made and did not fail on the file, the sink or the    *)
(* opening of the destination.                                             *)
Openable(c) ==
    /\ pc[c] # "idle"
    /\ FileExists(ghost[c].asked.SiaPath)
    /\ SinkOK(ghost[c].asked)
    /\ ret[c] # <<"open failed">>

(* The first and one past the last byte of the file that chunk job k       *)
(* fetches.                                                                *)
FetchStart(c, k) ==
    chunks[c][k].staticChunkIndex * csize + chunks[c][k].staticFetchOffset

FetchEnd(c, k) == FetchStart(c, k) + chunks[c][k].staticFetchLength

(* C13: a request with length 0 and offset < file.size is accepted with    *)
(* length file.size - offset; its chunk jobs fetch consecutive byte ranges *)
(* from offset on and, when the loop has ended, up to file.size.           *)
C13_SentinelToEndOfFile ==
    \A c \in Callers :
        (Openable(c) /\ ghost[c].asked.Length = 0
                     /\ ghost[c].asked.Offset < fsize) =>
            /\ dl[c].exists
            /\ req[c].Offset = ghost[c].asked.Offset
            /\ req[c].Length = fsize - req[c].Offset
            /\ dl[c].staticLength = req[c].Length
            /\ \A k \in DOMAIN chunks[c] :
                  FetchStart(c, k) =
                      IF k = 1 THEN req[c].Offset ELSE FetchEnd(c, k - 1)
            /\ LoopDone(c) =>
                  /\ chunks[c] # <<>>
                  /\ FetchEnd(c, Len(chunks[c])) = fsize

C13_Witness ==
    \E c \in Callers :
        /\ Openable(c)
        /\ ghost[c].asked.Length = 0
        /\ ghost[c].asked.Offset > 0
        /\ ghost[c].asked.Offset < fsize
        /\ LoopDone(c)
        /\ Len(chunks[c]) >= 2

(* C14: a Download call goes on to newDownload's chunk loop only if its    *)
(* request has exactly one sink, an absolute path or an http response      *)
(* without async; a call that returns from validation returns an error     *)
(* and leaves the downloads, the chunk jobs, the heap, the wake channel    *)
(* and the history as they were.                                           *)
C14_RejectedRequestCreatesNothing ==
    [][\A c \in Callers :
         (pc[c] = "idle" /\ pc'[c] # "idle") =>
            /\ ~SinkOK(ghost'[c].asked) => pc'[c] = "done"
            /\ pc'[c] = "done" =>
                  /\ ret'[c] # Nil
                  /\ UNCHANGED <<dl, chunks, heap, newDownloads,
                                 downloadHistory>>]_vars

(* A call for an existing file was rejected for its sink. *)
C14_Witness ==
    \E c \in Callers :
        /\ pc[c] = "done"
        /\ FileExists(ghost[c].asked.SiaPath)
        /\ ~SinkOK(ghost[c].asked)
        /\ ~dl[c].exists
        /\ ret[c] # Nil

-----------------------------------------------------------------------------
(* The destination range [WriteStart, WriteEnd) of chunk job k. *)
WriteStart(c, k) == chunks[c][k].staticWriteOffset

WriteEnd(c, k) == WriteStart(c, k) + chunks[c][k].staticFetchLength

(* C20: the write ranges of a download's chunk jobs are non-empty and      *)
(* follow one another from 0 in chunk order, so they are pairwise          *)
(* disjoint; when the loop has ended they reach the download's length.     *)
C20_WriteRangesTile ==
    \A c \in Callers :
        dl[c].exists =>
            /\ \A k \in DOMAIN chunks[c] :
                  /\ WriteStart(c, k) < WriteEnd(c, k)
                  /\ WriteStart(c, k) = IF k = 1 THEN 0 ELSE WriteEnd(c, k - 1)
            /\ \A j, k \in DOMAIN chunks[c] :
                  j < k => WriteEnd(c, j) <= WriteStart(c, k)
            /\ LoopDone(c) =>
                  /\ chunks[c] # <<>>
                  /\ WriteEnd(c, Len(chunks[c])) = dl[c].staticLength

-----------------------------------------------------------------------------
(* Every chunk of [minChunk, maxChunk] has a chunk job and it is done. *)
AllChunksDone(c) ==
    /\ Len(chunks[c]) = loc[c].maxChunk - loc[c].minChunk + 1
    /\ \A k \in DOMAIN chunks[c] : chunks[c][k].state = "done"

(* C19: a download that was completed by the success of a chunk has every  *)
(* chunk of [minChunk, maxChunk] done.                                     *)
C19_CompleteOnlyWhenAllChunksDone ==
    \A c \in Callers :
        (dl[c].exists /\ ghost[c].completedBy = "success") => AllChunksDone(c)

-----------------------------------------------------------------------------
(* C15: within a download atomicDataReceived never decreases and never     *)
(* exceeds the length, and atomicTotalDataTransfered is at least           *)
(* atomicDataReceived.                                                     *)
C15_MonotonicProgress ==
    [][\A c \in Callers :
         /\ dl'[c].atomicDataReceived >= dl[c].atomicDataReceived
         /\ dl'[c].atomicDataReceived <= dl'[c].staticLength
         /\ dl'[c].atomicTotalDataTransfered >= dl'[c].atomicDataReceived]_vars

(* Both chunks decoded and written, and a late piece transferred. *)
C15_Witness ==
    \E c \in Callers :
        /\ dl[c].atomicDataReceived = dl[c].staticLength
        /\ dl[c].staticLength > csize
        /\ dl[c].atomicTotalDataTransfered > 2 * MinPieces * PieceSize

(* C16: a chunk never has more than K + overdrive piece-fetches in flight. *)
C16_OverdriveBound ==
    \A c \in Callers : \A k \in DOMAIN chunks[c] :
        chunks[c][k].inFlight <= MinPieces + chunks[c][k].staticOverdrive

(* The cap is reached again through the promotion of a standby after a     *)
(* piece has failed and one has been retrieved.                            *)
C16_Witness ==
    \E c \in Callers : \E k \in DOMAIN chunks[c] :
        /\ chunks[c][k].inFlight = MinPieces + chunks[c][k].staticOverdrive
        /\ chunks[c][k].failed > 0

(* C17: the decode of a chunk runs at most once, has run once when K       *)
(* pieces are retrieved, and chunksRemaining is decremented at most once   *)
(* for a chunk.                                                            *)
C17_DecodeExactlyOnce ==
    \A c \in Callers : \A k \in DOMAIN chunks[c] :
        /\ chunks[c][k].decodes <= 1
        /\ chunks[c][k].retrieved >= MinPieces <=> chunks[c][k].decodes = 1
        /\ chunks[c][k].decrements <= chunks[c][k].decodes

(* A chunk decoded and written, with overdrive pieces delivered after the  *)
(* decode.                                                                 *)
C17_Witness ==
    \E c \in Callers : \E k \in DOMAIN chunks[c] :
        /\ chunks[c][k].state = "done"
        /\ chunks[c][k].decrements = 1
        /\ chunks[c][k].retrieved > MinPieces

(* The call's loop has ended, the completion signal is raised and every    *)
(* chunk job has ended.                                                    *)
Terminated(c) ==
    /\ LoopDone(c)
    /\ staticComplete(dl[c])
    /\ \A k \in DOMAIN chunks[c] : chunks[c][k].state \in {"done", "failed"}

-----------------------------------------------------------------------------
(* C21: of a download whose range lies in the file the first two chunk     *)
(* jobs have the configured overdrive and every later one has none.        *)
C21_OverdriveOnFirstTwoJobs ==
    \A c \in Callers :
        (dl[c].exists /\ ValidRange(c)) =>
            \A k \in DOMAIN chunks[c] :
                chunks[c][k].staticOverdrive =
                    IF k <= 2 THEN dl[c].staticOverdrive ELSE 0

(* C22 as claimed: newDownload accepts every request with offset equal to  *)
(* the file size and length > 0.                                           *)
C22_NewDownloadAcceptsOffsetAtEnd ==
    \A c \in Callers :
        (pc[c] # "idle" /\ ghost[c].asked.Offset = fsize
                       /\ ghost[c].asked.Length > 0) => Passed(c)

(* C22: with offset equal to the file size, Download's checks reject the   *)
(* request, and newDownload rejects it too unless length > 0 and           *)
(* offset + length wraps past the word.                                    *)
C22_NewDownloadRejectsOffsetAtEnd ==
    \A c \in Callers :
        (pc[c] # "idle" /\ ghost[c].asked.Offset = fsize) =>
            /\ PreflightError(ghost[c].asked, fsize) # Nil
            /\ Passed(c) <=>
                  /\ ghost[c].asked.Length > 0
                  /\ ghost[c].asked.Offset + ghost[c].asked.Length >= Word

(* newDownload rejected offset = file size with a positive length. *)
C22_Witness ==
    \E c \in Callers :
        /\ pc[c] = "done"
        /\ ghost[c].asked.Offset = fsize
        /\ ghost[c].asked.Length > 0
        /\ ret[c] = <<"download is requesting data past the boundary of the file">>

-----------------------------------------------------------------------------
(* The chunk job that caller c pushed last. *)
LastPushed(c) == <<c, Len(chunks[c])>>

(* C23: at most one wake is pending; a caller about to offer a wake can    *)
(* always take its step, and the chunk job it pushed is in the heap or     *)
(* already taken by the download loop.                                     *)
C23_SingleSlotWake ==
    /\ newDownloads \in {0, 1}
    /\ \A c \in Callers :
         pc[c] = "wake" =>
            /\ ENABLED LoopWake(c)
            /\ chunks[c] # <<>>
            /\ chunks[c][Len(chunks[c])].staticChunkIndex = loc[c].i
            /\ \/ LastPushed(c) \in heap
               \/ chunks[c][Len(chunks[c])].state # "queued"

(* A wake is offered while one is pending and two chunk jobs wait in the   *)
(* heap.                                                                   *)
C23_Witness ==
    \E c \in Callers :
        /\ pc[c] = "wake"
        /\ newDownloads = 1
        /\ Cardinality(heap) >= 2

-----------------------------------------------------------------------------
(* The most chunk jobs a call of the concurrent specifications pushes. *)
MaxJobs == (ConcFileSize + ConcChunkSize - 1) \div ConcChunkSize

(* C25 as claimed: a chunk job in the heap with the download loop idle     *)
(* has a wake pending.                                                     *)
C25_WakePendingWhenIdle ==
    (heap # {} /\ sched = "idle") => newDownloads = 1

(* C25: with a chunk job in the heap and the download loop idle, a wake    *)
(* is pending or the caller that pushed is about to offer it; every chunk  *)
(* job in the heap is eventually taken from it, unless the renter is       *)
(* stopped.                                                                *)
C25_NoLostWakeUp ==
    /\ []((heap # {} /\ sched = "idle") =>
             (newDownloads = 1 \/ \E c \in Callers : pc[c] = "wake"))
    /\ \A c \in Callers : \A k \in 1..MaxJobs :
          (<<c, k>> \in heap) ~> (<<c, k>> \notin heap \/ stopped)

(* The download loop went idle, a chunk job was pushed after that and the  *)
(* loop took it.                                                           *)
C25_Witness ==
    \E c \in Callers :
        /\ Len(chunks[c]) = 2
        /\ chunks[c][2].state = "inflight"
        /\ chunks[c][1].state = "done"
        /\ newDownloads = 0
        /\ ~stopped

-----------------------------------------------------------------------------
(* C24: a download whose completion signal is raised has its endTime set,  *)
(* and no DownloadInfo is Completed with an unset EndTime.                 *)
C24_EndTimeSetWhenComplete ==
    /\ \A c \in Callers : staticComplete(dl[c]) => dl[c].endTime # 0
    /\ \A i \in DOMAIN hist.out :
         hist.out[i].Completed => hist.out[i].EndTime # 0

(* C26: a DownloadInfo with an error string is Completed, and one that is  *)
(* Completed and, its error read, has no error string belongs to a         *)
(* download without error.                                                 *)
C26_InfoConsistent ==
    \A i \in DOMAIN hist.out :
        /\ hist.out[i].Error # <<>> => hist.out[i].Completed
        /\ (i <= hist.i /\ hist.out[i].Completed /\ hist.out[i].Error = <<>>)
              => Err(dl[hist.out[i].id]) = Nil

====
